---- MODULE Spec2Model ----
(***************************************************************************)
(* Model of the calendar "next event" Lambda handler (ical.js variant).    *)
(*                                                                         *)
(* Instants are absolute milliseconds (Date.getTime()).  A missing Date is *)
(* NoDate, a missing string is Null.  JavaScript arrays are sequences, so  *)
(* positions are 1-based and "not found" (-1 / undefined) is position 0.   *)
(***************************************************************************)
EXTENDS Integers, Sequences, FiniteSets, Bags, TLC

VARIABLES
    pc,              \* position of the computation being modelled
    nowMs,           \* handler: nowMs
    tz,              \* handler: tz
    occs,            \* handler: occs, merged and sorted by startMs
    sel,             \* positions in occs chosen by computeNextTriple/computeMetrics
    triple,          \* computeNextTriple's return value
    metrics,         \* computeMetrics' return value
    ev,              \* expandOccurrencesInWindow: the master event
    uidOverrides,    \* expandOccurrencesInWindow: overridesByUid.get(uid)
    windowStartMs,   \* todayWindow().startMs
    windowEndMs,     \* todayWindow().endMs
    expanded,        \* expandOccurrencesInWindow's return value
    allEvents,       \* handler: allEvents, the parsed components
    hasInlineIcs,    \* handler: hasInlineIcs
    cache,           \* module-level cache {at, body}
    response,        \* the handler's return value
    instanceCount,   \* expandOccurrencesInWindow: instanceCount
    iterMs,          \* expandOccurrencesInWindow: occMs, the instant the iterator gave last
    icsUrl,          \* module-level ICS_URL (Null when the variable is not set)
    pending,         \* invocations suspended at await fetchText(icsUrl), a bag
    icsText,         \* normalizeIcsTimezones: icsText
    fixedIcs         \* handler: fixedIcs, what normalizeIcsTimezones returns

vars == <<pc, nowMs, tz, occs, sel, triple, metrics, ev, uidOverrides,
          windowStartMs, windowEndMs, expanded, allEvents, hasInlineIcs,
          cache, response,
         instanceCount, iterMs, icsUrl, pending, icsText, fixedIcs>>

\* The variables of the iterator loop.
loopVars == <<instanceCount, iterMs>>

\* The variables of the module environment, of the suspended invocations and
\* of the text normalizer.
envVars == <<icsUrl, pending, icsText, fixedIcs>>

-----------------------------------------------------------------------------
(* Program constants and units *)

DEFAULT_DURATION_MIN == 60
CACHE_MS == 60000

MinuteMs == 60 * 1000
HourMs == 60 * MinuteMs
DayMs == 24 * HourMs

DefaultDurationMs == DEFAULT_DURATION_MIN * MinuteMs
MaxEventDuration == 24 * 60 * 60 * 1000
SanityDurationMs == 7 * 24 * 60 * 60 * 1000

DefaultTZ == "Europe/Nicosia"

Null == "null"
NoDate == 0 - 1

NoTitle == "(No title)"

-----------------------------------------------------------------------------
(* Zones and the wall-clock formatting of the output *)

ValidZones == {"UTC", "Europe/Nicosia", "America/New_York", "Australia/Sydney",
               "Africa/Monrovia"}

\* The UTC offset of a zone at an instant, as the wall clock that
\* Intl.DateTimeFormat gives for the zone shows it.  Instants are
\* counted from a reference UTC midnight, and each zone is modelled in a week
\* of its own:
\*   Europe/Nicosia    a winter week, at +02:00 throughout;
\*   America/New_York  from 2024-03-07T00:00Z: -05:00 until daylight time
\*                     starts at 2024-03-10T07:00Z, then -04:00;
\*   Australia/Sydney  from 2024-04-04T00:00Z: +11:00 until daylight time
\*                     ends at 2024-04-06T16:00Z, then +10:00;
\*   Africa/Monrovia   a week of 1970, at -00:44:30 throughout.
Offset(zone, ms) ==
    CASE zone = "UTC" -> 0
      [] zone = "America/New_York" ->
            IF ms < 3 * DayMs + 7 * HourMs THEN 0 - 5 * HourMs ELSE 0 - 4 * HourMs
      [] zone = "Australia/Sydney" ->
            IF ms < 2 * DayMs + 16 * HourMs THEN 11 * HourMs ELSE 10 * HourMs
      [] zone = "Africa/Monrovia" -> 0 - (44 * MinuteMs + 30 * 1000)
      [] OTHER -> 2 * HourMs

\* Variant of isValidTimeZone that accepts every identifier.
AnyZoneValid(zone) == TRUE

isValidTimeZone(zone) == zone \in ValidZones

\* Math.round(n / d) for d > 0: halves round up.
RoundDiv(n, d) == (2 * n + d) \div (2 * d)

Abs(n) == IF n < 0 THEN 0 - n ELSE n

\* The string YYYY-MM-DDTHH:mm:ss+HH:mm, kept as its two parts: the wall
\* clock to the second (as seconds since the epoch read as if UTC) and the
\* signed offset in minutes.
isoWithTimeZone(ms, zone) ==
    LET wallSec == (ms + Offset(zone, ms)) \div 1000
        offsetMinutes == RoundDiv(wallSec * 1000 - ms, MinuteMs)
    IN  [wallSec |-> wallSec, offsetMinutes |-> offsetMinutes]

\* Date.parse of such a string.
DateParse(iso) == iso.wallSec * 1000 - iso.offsetMinutes * MinuteMs

NullDto == [uid |-> Null, title |-> Null, location |-> Null, organizer |-> Null,
            start |-> [wallSec |-> 0, offsetMinutes |-> 0],
            end |-> [wallSec |-> 0, offsetMinutes |-> 0], isNull |-> TRUE]

toDtoWithTz(o, zone) ==
    [uid |-> o.uid, title |-> o.title, location |-> o.location,
     organizer |-> o.organizer,
     start |-> isoWithTimeZone(o.startMs, zone),
     end |-> isoWithTimeZone(o.endMs, zone), isNull |-> FALSE]

-----------------------------------------------------------------------------
(* Timeline analysis: computeNextTriple and computeMetrics *)

\* Variant of IsCurrent with the end bound closed (nowMs <= o.endMs).
IsCurrentClosedEnd(o, now) == now >= o.startMs /\ now <= o.endMs

\* The predicate of occs.find / occs.some for the current event.
IsCurrent(o, now) == now >= o.startMs /\ now < o.endMs

\* occs.find((o) => nowMs >= o.startMs && nowMs < o.endMs), as a position.
CurrentIdx(list, now) ==
    LET scan[i \in 1..(Len(list) + 1)] ==
            IF i > Len(list) THEN 0
            ELSE IF IsCurrent(list[i], now) THEN i
            ELSE scan[i + 1]
    IN  scan[1]

\* Variant of SearchFromMs that always searches from now (next = first
\* occurrence starting at or after now, whether or not one is current).
SearchFromNow(list, now) == now

SearchFromMs(list, now) ==
    IF CurrentIdx(list, now) # 0 THEN list[CurrentIdx(list, now)].endMs ELSE now

\* Variant of NextIdx that takes the first occurrence starting strictly
\* after searchFromMs.
NextIdxStrictlyAfter(list, now) ==
    LET from == SearchFromMs(list, now)
        scan[i \in 1..(Len(list) + 1)] ==
            IF i > Len(list) THEN 0
            ELSE IF list[i].startMs > from THEN i
            ELSE scan[i + 1]
    IN  scan[1]

\* occs.findIndex((o) => o.startMs >= searchFromMs)
NextIdx(list, now) ==
    LET from == SearchFromMs(list, now)
        scan[i \in 1..(Len(list) + 1)] ==
            IF i > Len(list) THEN 0
            ELSE IF list[i].startMs >= from THEN i
            ELSE scan[i + 1]
    IN  scan[1]

\* Variant of NextOverlappingIdx that stops at the first occurrence starting
\* after next starts.
NextOverlappingIdxEarlyBreak(list, nextIdx) ==
    LET next == list[nextIdx]
        scan[i \in (nextIdx + 1)..(Len(list) + 1)] ==
            IF i > Len(list) THEN 0
            ELSE IF list[i].startMs > next.startMs THEN 0
            ELSE IF list[i].endMs > next.startMs THEN i
            ELSE scan[i + 1]
    IN  scan[nextIdx + 1]

\* Variant of NextOverlappingIdx whose break test is start > next.endMs.
NextOverlappingIdxLateBreak(list, nextIdx) ==
    LET next == list[nextIdx]
        scan[i \in (nextIdx + 1)..(Len(list) + 1)] ==
            IF i > Len(list) THEN 0
            ELSE IF list[i].startMs > next.endMs THEN 0
            ELSE IF list[i].endMs > next.startMs THEN i
            ELSE scan[i + 1]
    IN  scan[nextIdx + 1]

\* The first loop after next: break once start >= next.endMs, take the
\* first occurrence with endMs > next.startMs.
NextOverlappingIdx(list, nextIdx) ==
    LET next == list[nextIdx]
        scan[i \in (nextIdx + 1)..(Len(list) + 1)] ==
            IF i > Len(list) THEN 0
            ELSE IF list[i].startMs >= next.endMs THEN 0
            ELSE IF list[i].endMs > next.startMs THEN i
            ELSE scan[i + 1]
    IN  scan[nextIdx + 1]

\* The second loop: grow clusterEnd from next.endMs, starting at position i.
RECURSIVE GrowCluster(_, _, _)
GrowCluster(list, i, clusterEnd) ==
    IF i > Len(list) THEN clusterEnd
    ELSE IF list[i].startMs >= clusterEnd THEN clusterEnd
    ELSE IF list[i].endMs > clusterEnd THEN GrowCluster(list, i + 1, list[i].endMs)
    ELSE GrowCluster(list, i + 1, clusterEnd)

\* Variant of ClusterEnd that never grows past next.endMs.
ClusterEndOfNextOnly(list, nextIdx) == list[nextIdx].endMs

ClusterEnd(list, nextIdx) == GrowCluster(list, nextIdx + 1, list[nextIdx].endMs)

\* The third loop: the first occurrence after next with start >= clusterEnd.
NextNonOverlappingIdx(list, nextIdx) ==
    LET clusterEnd == ClusterEnd(list, nextIdx)
        scan[i \in (nextIdx + 1)..(Len(list) + 1)] ==
            IF i > Len(list) THEN 0
            ELSE IF list[i].startMs >= clusterEnd THEN i
            ELSE scan[i + 1]
    IN  scan[nextIdx + 1]

DtoAt(list, i, zone) == IF i = 0 THEN NullDto ELSE toDtoWithTz(list[i], zone)

\* The positions computeNextTriple settles on (0: null).
TripleIdx(list, now) ==
    LET n == NextIdx(list, now)
    IN  IF n = 0
        THEN [next |-> 0, nextOverlapping |-> 0, nextNonOverlapping |-> 0]
        ELSE [next |-> n,
              nextOverlapping |-> NextOverlappingIdx(list, n),
              nextNonOverlapping |-> NextNonOverlappingIdx(list, n)]

computeNextTriple(list, now, zone) ==
    LET t == TripleIdx(list, now)
    IN  [next |-> DtoAt(list, t.next, zone),
         nextOverlapping |-> DtoAt(list, t.nextOverlapping, zone),
         nextNonOverlapping |-> DtoAt(list, t.nextNonOverlapping, zone)]

\* minutesUntilNext of a non-null next: NoDate stands for null.
MinutesUntilNext(nextDto, now) ==
    LET m == RoundDiv(DateParse(nextDto.start) - now, MinuteMs)
    IN  IF m > 0 THEN m ELSE 0

computeMetrics(list, now, nextDto, zone) ==
    [now |-> isoWithTimeZone(now, zone),
     minutesUntilNext |->
        IF nextDto.isNull THEN NoDate ELSE MinutesUntilNext(nextDto, now),
     isOverlappingNow |-> \E i \in 1..Len(list) : IsCurrent(list[i], now),
     current |-> DtoAt(list, CurrentIdx(list, now), zone)]

-----------------------------------------------------------------------------
(* Parsed events (parseVEvent) and expandOccurrencesInWindow *)

\* ev.rrule of an event without RRULE.
NoRule == [has |-> FALSE, freq |-> 0, count |-> 0]

\* The object parseVEvent returns.  summary is "" when SUMMARY is absent;
\* location, organizer, status are Null and the dates NoDate when absent.
\* exdate is the set of instants of the EXDATE values.  rrule is the rule the
\* iterator follows: count instants, freq apart, the first at start.
\* NoEvent also stands for a null overrideEv.
NoEvent ==
    [uid |-> Null, summary |-> "", location |-> Null, organizer |-> Null,
     start |-> NoDate, end |-> NoDate, recurrenceId |-> NoDate,
     rrule |-> NoRule, exdate |-> {}, status |-> Null, datetype |-> "date-time"]

\* The titles of the modelled calendars that start with "Canceled:".
CanceledTitles == {"Canceled: Standup", "Canceled: Moved"}

\* title.startsWith("Canceled:")
StartsWithCanceled(title) == title \in CanceledTitles

\* a || b on strings: "" and null are falsy.
OrStr(a, b) == IF a = "" \/ a = Null THEN b ELSE a

\* a ?? b on strings: only null is nullish.
Coalesce(a, b) == IF a = Null THEN b ELSE a

\* A JavaScript Map as the sequence of its [key, value] entries in insertion
\* order: get, has, and set (which keeps the position of an existing key).
MapHas(m, k) == \E i \in 1..Len(m) : m[i].key = k

\* Variant of MapGet that looks an override up by the start it gives.
MapGetByStart(m, k) ==
    IF \E i \in 1..Len(m) : m[i].value.start = k
    THEN m[CHOOSE i \in 1..Len(m) : m[i].value.start = k].value
    ELSE NoEvent

MapGet(m, k) ==
    IF MapHas(m, k) THEN m[CHOOSE i \in 1..Len(m) : m[i].key = k].value ELSE NoEvent

MapSet(m, k, v) ==
    IF MapHas(m, k)
    THEN [i \in 1..Len(m) |-> IF m[i].key = k THEN [key |-> k, value |-> v] ELSE m[i]]
    ELSE Append(m, [key |-> k, value |-> v])

calcDurationMsFromEvent(e) ==
    IF /\ e.start # NoDate
       /\ e.end # NoDate
       /\ e.end - e.start > 0
       /\ e.end - e.start < SanityDurationMs
    THEN e.end - e.start
    ELSE DefaultDurationMs

calcEndMs(master, occStartMs, overrideEv) ==
    IF overrideEv # NoEvent /\ overrideEv.end # NoDate /\ overrideEv.end > occStartMs
    THEN overrideEv.end
    ELSE occStartMs +
         calcDurationMsFromEvent(IF overrideEv # NoEvent THEN overrideEv ELSE master)

\* const baseTitle = ev.summary || "(No title)"
BaseTitle(master) == OrStr(master.summary, NoTitle)

\* const title = (overrideEv?.summary ?? baseTitle) || "(No title)"
MergedTitle(master, overrideEv) ==
    OrStr(IF overrideEv # NoEvent
          THEN Coalesce(overrideEv.summary, BaseTitle(master))
          ELSE BaseTitle(master),
          NoTitle)

\* mkOcc.  recId and path are history fields, not members of the JavaScript
\* object: the recurrence instant the occurrence was made for and the place
\* that pushed it.
mkOcc(master, startMs, overrideEv, recId, path) ==
    [uid |-> OrStr(master.uid, ""),
     title |-> MergedTitle(master, overrideEv),
     location |->
        IF overrideEv # NoEvent
        THEN Coalesce(overrideEv.location, OrStr(master.location, Null))
        ELSE OrStr(master.location, Null),
     organizer |->
        IF overrideEv # NoEvent
        THEN Coalesce(overrideEv.organizer, master.organizer)
        ELSE master.organizer,
     startMs |-> startMs,
     endMs |-> calcEndMs(master, startMs, overrideEv),
     status |->
        IF overrideEv # NoEvent
        THEN Coalesce(overrideEv.status, master.status)
        ELSE master.status,
     recId |-> recId, path |-> path]

IsCancelledOcc(occ) == occ.status = "CANCELLED" \/ StartsWithCanceled(occ.title)

OverlapsWindow(startMs, endMs, ws, we) == startMs < we /\ endMs > ws

\* The non-recurring branch.
ExpandSingle(master, ws, we) ==
    LET startMs == master.start
        endMs == IF master.end # NoDate THEN master.end ELSE startMs + DefaultDurationMs
        occ == mkOcc(master, master.start, NoEvent, NoDate, "single")
    IN  IF OverlapsWindow(startMs, endMs, ws, we) /\ ~IsCancelledOcc(occ)
        THEN <<occ>>
        ELSE <<>>

\* The k-th value (k = 0, 1, ...) of icalEvent.iterator() as an instant.
IteratorInstant(master, k) == master.start + k * master.rrule.freq

\* isExcluded(date, exdates)
isExcluded(t, exdates) == t \in exdates

\* The smart skip: occMs + maxEventDuration < windowStartMs.
SmartSkip(occMs, ws) == occMs + MaxEventDuration < ws

\* The while loop over the iterator from its k-th value on: acc is
\* [occs, usedOverrides].
RECURSIVE ExpandLoop(_, _, _, _, _, _)
ExpandLoop(master, ws, we, ovs, k, acc) ==
    IF k >= master.rrule.count THEN acc
    ELSE
      LET occMs == IteratorInstant(master, k)
          override == MapGet(ovs, occMs)
          used == IF override # NoEvent
                  THEN acc.usedOverrides \cup {occMs}
                  ELSE acc.usedOverrides
          startMs == IF override # NoEvent /\ override.start # NoDate
                     THEN override.start
                     ELSE occMs
          endMs == calcEndMs(master, startMs, override)
          occ == mkOcc(master, startMs, override, occMs, "instance")
      IN  IF occMs >= we THEN acc
          ELSE IF SmartSkip(occMs, ws) THEN ExpandLoop(master, ws, we, ovs, k + 1, acc)
          ELSE IF isExcluded(occMs, master.exdate)
               THEN ExpandLoop(master, ws, we, ovs, k + 1, acc)
          ELSE IF override.status = "CANCELLED"
               THEN ExpandLoop(master, ws, we, ovs, k + 1,
                               [acc EXCEPT !.usedOverrides = used])
          ELSE IF OverlapsWindow(startMs, endMs, ws, we) /\ ~IsCancelledOcc(occ)
               THEN ExpandLoop(master, ws, we, ovs, k + 1,
                               [occs |-> Append(acc.occs, occ), usedOverrides |-> used])
          ELSE ExpandLoop(master, ws, we, ovs, k + 1,
                          [acc EXCEPT !.usedOverrides = used])

\* occEndMs of an override outside the loop (sweep and orphaned overrides).
StandaloneEndMs(override) ==
    IF override.end # NoDate THEN override.end ELSE override.start + DefaultDurationMs

\* The occurrence the unused-override sweep pushes for one entry.
SweepOcc(master, recIdMs, override) ==
    [uid |-> override.uid,
     title |-> OrStr(override.summary, OrStr(BaseTitle(master), NoTitle)),
     location |-> OrStr(override.location, OrStr(OrStr(master.location, Null), Null)),
     organizer |-> OrStr(override.organizer, OrStr(master.organizer, Null)),
     startMs |-> override.start,
     endMs |-> StandaloneEndMs(override),
     status |-> Null,
     recId |-> recIdMs, path |-> "sweep"]

\* Whether the sweep pushes an occurrence for the entry.
SweepEmits(master, ws, we, used, entry) ==
    /\ entry.key \notin used
    /\ entry.value.status # "CANCELLED"
    /\ entry.value.start # NoDate
    /\ OverlapsWindow(entry.value.start, StandaloneEndMs(entry.value), ws, we)
    /\ ~StartsWithCanceled(SweepOcc(master, entry.key, entry.value).title)

\* The sweep over uidOverrides.entries() from position i on.
RECURSIVE SweepLoop(_, _, _, _, _, _, _)
SweepLoop(master, ws, we, ovs, used, i, out) ==
    IF i > Len(ovs) THEN out
    ELSE SweepLoop(master, ws, we, ovs, used, i + 1,
                   IF SweepEmits(master, ws, we, used, ovs[i])
                   THEN Append(out, SweepOcc(master, ovs[i].key, ovs[i].value))
                   ELSE out)

\* The recurring branch: the loop, then the sweep.
ExpandRecurring(master, ws, we, ovs) ==
    LET l == ExpandLoop(master, ws, we, ovs, 0, [occs |-> <<>>, usedOverrides |-> {}])
    IN  SweepLoop(master, ws, we, ovs, l.usedOverrides, 1, l.occs)

expandOccurrencesInWindow(master, ws, we, ovs) ==
    IF master.datetype = "date" THEN <<>>
    ELSE IF master.start = NoDate THEN <<>>
    ELSE IF ~master.rrule.has THEN ExpandSingle(master, ws, we)
    ELSE ExpandRecurring(master, ws, we, ovs)

-----------------------------------------------------------------------------
(* The handler: window, separation, merge, sort *)

\* shiftUtcToZonedMidnightMs: the wall clock of the instant in the zone, read
\* as if it were UTC, gives the offset that is then subtracted.  The parts
\* come from the "en-US" formatter with hour12: false, which on the runtimes
\* the repository names (Node.js 18.x and 20.x) writes the hour of a wall
\* clock 00:mm:ss as "24"; Date.UTC carries hour 24 into the next day, so
\* asIfUtc is then a day late and offsetMs a day too large.
shiftUtcToZonedMidnightMs(utcMidnightMs, zone) ==
    LET wallMs == ((utcMidnightMs + Offset(zone, utcMidnightMs)) \div 1000) * 1000
        wallHour == (wallMs % DayMs) \div HourMs
        hour == IF wallHour = 0 THEN 24 ELSE wallHour
        asIfUtc == (wallMs \div DayMs) * DayMs + hour * HourMs + (wallMs % HourMs)
        offsetMs == asIfUtc - utcMidnightMs
    IN  utcMidnightMs - offsetMs

\* todayWindow: the zone-local date of now, its UTC midnight, and the shift
\* of that midnight and of the next one.
todayWindow(now, zone) ==
    LET approxUtcMidnight == ((now + Offset(zone, now)) \div DayMs) * DayMs
    IN  [startMs |-> shiftUtcToZonedMidnightMs(approxUtcMidnight, zone),
         endMs |-> shiftUtcToZonedMidnightMs(approxUtcMidnight + DayMs, zone)]

\* Variant of MasterUids that adds the uid of every component.
AllUids(events) ==
    {events[i].uid : i \in {j \in 1..Len(events) : events[j].uid # Null}}

\* separateMasterAndOverrides, first pass: uids of events without recurrenceId.
MasterUids(events) ==
    {events[i].uid : i \in {j \in 1..Len(events) :
                              events[j].uid # Null /\ events[j].recurrenceId = NoDate}}

\* Second pass: masterEvents in order.
RECURSIVE MasterEvents(_, _)
MasterEvents(events, i) ==
    IF i > Len(events) THEN <<>>
    ELSE IF events[i].uid # Null /\ events[i].recurrenceId = NoDate
         THEN <<events[i]>> \o MasterEvents(events, i + 1)
         ELSE MasterEvents(events, i + 1)

\* overridesByUid.get(uid), an empty map when the uid has no entry.
InnerMap(byUid, uid) ==
    IF \E i \in 1..Len(byUid) : byUid[i].key = uid
    THEN byUid[CHOOSE i \in 1..Len(byUid) : byUid[i].key = uid].value
    ELSE <<>>

\* Second pass: overridesByUid, a Map of Maps in insertion order.
RECURSIVE OverridesByUid(_, _, _)
OverridesByUid(events, i, byUid) ==
    IF i > Len(events) THEN byUid
    ELSE IF events[i].uid # Null /\ events[i].recurrenceId # NoDate
         THEN LET uid == events[i].uid
                  inner == MapSet(InnerMap(byUid, uid), events[i].recurrenceId, events[i])
              IN  OverridesByUid(events, i + 1,
                     IF \E j \in 1..Len(byUid) : byUid[j].key = uid
                     THEN [j \in 1..Len(byUid) |->
                              IF byUid[j].key = uid
                              THEN [key |-> uid, value |-> inner]
                              ELSE byUid[j]]
                     ELSE Append(byUid, [key |-> uid, value |-> inner]))
         ELSE OverridesByUid(events, i + 1, byUid)

separateMasterAndOverrides(events) ==
    [masterEvents |-> MasterEvents(events, 1),
     overridesByUid |-> OverridesByUid(events, 1, <<>>),
     masterUids |-> MasterUids(events)]

\* Variant of KeepExpanded that keeps only what starts after now.
KeepStartingAfterNow(o, now, endMs) == o.startMs > now /\ o.startMs < endMs

\* The filter on expanded occurrences (handler line 127).
KeepExpanded(o, now, endMs) == o.startMs < endMs /\ o.endMs > now

FilterExpanded(list, now, endMs) ==
    SelectSeq(list, LAMBDA o : KeepExpanded(o, now, endMs))

\* The loop over masterEvents from position i on.
RECURSIVE MasterOccs(_, _, _, _, _, _)
MasterOccs(masters, byUid, startMs, endMs, now, i) ==
    IF i > Len(masters) THEN <<>>
    ELSE FilterExpanded(
            expandOccurrencesInWindow(masters[i], startMs, endMs,
                                      InnerMap(byUid, masters[i].uid)),
            now, endMs)
         \o MasterOccs(masters, byUid, startMs, endMs, now, i + 1)

\* The occurrence pushed for an orphaned override.
OrphanOcc(recIdMs, override) ==
    [uid |-> override.uid,
     title |-> OrStr(override.summary, NoTitle),
     location |-> OrStr(override.location, Null),
     organizer |-> OrStr(override.organizer, Null),
     startMs |-> override.start,
     endMs |-> StandaloneEndMs(override),
     status |-> Null,
     recId |-> recIdMs, path |-> "orphan"]

OrphanEmits(override, startMs, endMs) ==
    /\ override.status # "CANCELLED"
    /\ override.start # NoDate
    /\ override.start >= startMs
    /\ override.start < endMs

\* The entries of one orphaned uid's map, from position j on.
RECURSIVE OrphanEntries(_, _, _, _)
OrphanEntries(inner, startMs, endMs, j) ==
    IF j > Len(inner) THEN <<>>
    ELSE (IF OrphanEmits(inner[j].value, startMs, endMs)
          THEN <<OrphanOcc(inner[j].key, inner[j].value)>>
          ELSE <<>>)
         \o OrphanEntries(inner, startMs, endMs, j + 1)

\* The loop over overridesByUid.entries() from position i on.
RECURSIVE OrphanOccs(_, _, _, _, _)
OrphanOccs(byUid, masterUids, startMs, endMs, i) ==
    IF i > Len(byUid) THEN <<>>
    ELSE (IF byUid[i].key \notin masterUids
          THEN OrphanEntries(byUid[i].value, startMs, endMs, 1)
          ELSE <<>>)
         \o OrphanOccs(byUid, masterUids, startMs, endMs, i + 1)

\* occs.sort((a, b) => a.startMs - b.startMs): a stable sort, as insertion
\* of each element behind the elements that do not start later.
InsertByStart(sorted, o) ==
    LET before == SelectSeq(sorted, LAMBDA x : x.startMs <= o.startMs)
        after == SelectSeq(sorted, LAMBDA x : x.startMs > o.startMs)
    IN  before \o <<o>> \o after

RECURSIVE SortByStart(_, _, _)
SortByStart(list, i, sorted) ==
    IF i > Len(list) THEN sorted
    ELSE SortByStart(list, i + 1, InsertByStart(sorted, list[i]))

\* Handler lines 115-167: the merged, sorted occurrence list.
MergedOccs(events, startMs, endMs, now) ==
    LET sep == separateMasterAndOverrides(events)
    IN  SortByStart(
            MasterOccs(sep.masterEvents, sep.overridesByUid, startMs, endMs, now, 1)
            \o OrphanOccs(sep.overridesByUid, sep.masterUids, startMs, endMs, 1),
            1, <<>>)

-----------------------------------------------------------------------------
(* Values of the variables a computation does not use *)

\* The environment of a specification that follows one computation: no
\* invocation is suspended and no text is being normalized.
EnvIdle == icsUrl = Null /\ pending = EmptyBag /\ icsText = <<>> /\ fixedIcs = <<>>

NoSel == [current |-> 0, next |-> 0, nextOverlapping |-> 0, nextNonOverlapping |-> 0]
NoTriple == [next |-> NullDto, nextOverlapping |-> NullDto, nextNonOverlapping |-> NullDto]
NoMetrics == [now |-> [wallSec |-> 0, offsetMinutes |-> 0], minutesUntilNext |-> NoDate,
              isOverlappingNow |-> FALSE, current |-> NullDto]
NoBody == [isNull |-> TRUE,
           window |-> [start |-> [wallSec |-> 0, offsetMinutes |-> 0],
                       end |-> [wallSec |-> 0, offsetMinutes |-> 0], tz |-> Null],
           metrics |-> NoMetrics, triple |-> NoTriple]
InitialCache == [at |-> 0, body |-> NoBody]
NoResponse == [statusCode |-> 0, xCache |-> Null, body |-> NoBody, error |-> Null]

-----------------------------------------------------------------------------
(* Timeline analysis over every sorted occurrence list *)

MaxOccs == 3
MaxTick == 3

TickMs == 15 * MinuteMs
TimelineTimes == {k * TickMs : k \in 0..MaxTick}

TimelineOcc(s, e) ==
    [uid |-> "u", title |-> "t", location |-> Null, organizer |-> Null,
     startMs |-> s, endMs |-> e, status |-> Null, recId |-> NoDate, path |-> "input"]

TimelineOccs == {TimelineOcc(s, e) : s \in TimelineTimes, e \in TimelineTimes}

\* What occs.sort((a, b) => a.startMs - b.startMs) guarantees.
IsSortedByStart(list) ==
    \A i \in 1..(Len(list) - 1) : list[i].startMs <= list[i + 1].startMs

SortedLists ==
    {l \in UNION {[1..n -> TimelineOccs] : n \in 0..MaxOccs} : IsSortedByStart(l)}

InitTimeline ==
    /\ pc = "sorted"
    /\ occs \in SortedLists
    /\ nowMs \in TimelineTimes
    /\ tz = DefaultTZ
    /\ sel = NoSel
    /\ triple = NoTriple
    /\ metrics = NoMetrics
    /\ ev = NoEvent
    /\ uidOverrides = <<>>
    /\ windowStartMs = 0
    /\ windowEndMs = 0
    /\ expanded = <<>>
    /\ allEvents = <<>>
    /\ hasInlineIcs = TRUE
    /\ cache = InitialCache
    /\ response = NoResponse
    /\ instanceCount = 0
    /\ iterMs = NoDate
    /\ EnvIdle

\* Handler lines 171-174: the triple, then the metrics from triple.next.
Analyze ==
    /\ pc = "sorted"
    /\ pc' = "analyzed"
    /\ sel' = [current |-> CurrentIdx(occs, nowMs)] @@ TripleIdx(occs, nowMs)
    /\ triple' = computeNextTriple(occs, nowMs, tz)
    /\ metrics' = computeMetrics(occs, nowMs, computeNextTriple(occs, nowMs, tz).next, tz)
    /\ UNCHANGED <<nowMs, tz, occs, ev, uidOverrides, windowStartMs, windowEndMs,
                   expanded, allEvents, hasInlineIcs, cache, response, loopVars, envVars>>

NextTimeline == Analyze

SpecTimeline == InitTimeline /\ [][NextTimeline]_vars

-----------------------------------------------------------------------------
(* expandOccurrencesInWindow over masters and their override maps *)

MaxCount == 3
MaxOverrides == 1

\* The window of the modelled day: a UTC day, with room before it for
\* instants of earlier days.
DayStartMs == 3 * DayMs
DayEndMs == DayStartMs + DayMs

MorningMs == DayStartMs + 9 * HourMs
EveningMs == DayStartMs + 20 * HourMs
EarlierDayMs == MorningMs - 2 * DayMs

MasterUid == "m1"

\* Sequences of at most n elements of a pool.
SeqsUpTo(pool, n) == UNION {[1..k -> pool] : k \in 0..n}

\* RRULE:FREQ=HOURLY;COUNT=n and RRULE:FREQ=DAILY;COUNT=n
HourlyRule == [has |-> TRUE, freq |-> HourMs, count |-> MaxCount]
DailyRule == [has |-> TRUE, freq |-> DayMs, count |-> MaxCount]

Rules == {NoRule, DailyRule, HourlyRule}

MasterStarts == {EarlierDayMs, DayStartMs - HourMs, MorningMs}
MasterEnds(start) ==
    {NoDate, start + 15 * MinuteMs, start, start + 2 * DayMs, start + 8 * DayMs}

MasterEvent(start, end, rrule, exdate, summary, location, organizer, status) ==
    [uid |-> MasterUid, summary |-> summary, location |-> location,
     organizer |-> organizer, start |-> start, end |-> end,
     recurrenceId |-> NoDate, rrule |-> rrule, exdate |-> exdate,
     status |-> status, datetype |-> "date-time"]

OverrideEvent(uid, recId, start, end, summary, location, organizer, status) ==
    [uid |-> uid, summary |-> summary, location |-> location,
     organizer |-> organizer, start |-> start, end |-> end,
     recurrenceId |-> recId, rrule |-> NoRule, exdate |-> {},
     status |-> status, datetype |-> "date-time"]

RecurrenceIds == {EarlierDayMs, MorningMs, EveningMs}
\* The start an override gives its instance: unchanged, moved within the
\* day (also onto the next hourly instant), or moved before the window.
OverrideStarts(recId) ==
    {recId, DayStartMs + 8 * HourMs + 15 * MinuteMs, MorningMs + HourMs,
     DayStartMs - 15 * MinuteMs}
\* An end equal to the start is what ical.js's endDate gives a component
\* without DTEND and DURATION.
OverrideEnds(start) ==
    {NoDate, start, start + 30 * MinuteMs, start - 15 * MinuteMs, start + 8 * DayMs}

\* Masters and overrides that differ in their instants.
TimedMasters ==
    UNION {{MasterEvent(s, e, r, x, "Standup", "Room 1", "alice", Null) :
                e \in MasterEnds(s), r \in Rules, x \in {{}, {MorningMs}}} :
           s \in MasterStarts}

TimedOverrides ==
    UNION {UNION {{OverrideEvent(MasterUid, r, s, e, "Moved", Null, Null, Null) :
                        e \in OverrideEnds(s)} :
                  s \in OverrideStarts(r)} :
           r \in RecurrenceIds}
    \cup
    UNION {{OverrideEvent(MasterUid, r, s, s + 30 * MinuteMs, "Moved", Null, Null,
                          "CANCELLED") :
                s \in {r, DayStartMs + 8 * HourMs + 15 * MinuteMs}} :
           r \in RecurrenceIds}

\* Masters and overrides that differ in their text fields and status.

FieldMasters ==
    {MasterEvent(MorningMs, MorningMs + 15 * MinuteMs, r, {}, t, l, o, st) :
        r \in {NoRule, HourlyRule},
        t \in {"", "Standup", "Canceled: Standup"},
        l \in {Null, "Room 1"}, o \in {Null, "alice"},
        st \in {Null, "CANCELLED"}}

FieldOverrides ==
    UNION {{OverrideEvent(MasterUid, r, r, e, t, l, o, st) :
                e \in {NoDate, r + 30 * MinuteMs},
                t \in {"", "Moved", "Canceled: Moved"},
                l \in {Null, "Room 2"}, o \in {Null, "bob"},
                st \in {Null, "CONFIRMED", "CANCELLED"}} :
           r \in {MorningMs, EveningMs}}

\* separateMasterAndOverrides' inner map for a sequence of overrides of one
\* uid: innerMap.set(recIdMs, ev) in order.
RECURSIVE InnerMapOf(_, _, _)
InnerMapOf(overrides, i, m) ==
    IF i > Len(overrides) THEN m
    ELSE InnerMapOf(overrides, i + 1,
                    MapSet(m, overrides[i].recurrenceId, overrides[i]))

\* The inputs of one expansion: a timed master with up to MaxOverrides
\* overrides, or a master and one override that differ in their fields.
ExpandInput(master, overrides) ==
    /\ ev = master
    /\ uidOverrides = InnerMapOf(overrides, 1, <<>>)

TimedInput ==
    \E m \in TimedMasters, q \in SeqsUpTo(TimedOverrides, MaxOverrides) :
        ExpandInput(m, q)

FieldInput ==
    \E m \in FieldMasters, o \in FieldOverrides : ExpandInput(m, <<o>>)

InitExpand ==
    /\ pc = "parsed"
    /\ (TimedInput \/ FieldInput)
    /\ windowStartMs = DayStartMs
    /\ windowEndMs = DayEndMs
    /\ expanded = <<>>
    /\ nowMs = DayStartMs
    /\ tz = "UTC"
    /\ occs = <<>>
    /\ sel = NoSel
    /\ triple = NoTriple
    /\ metrics = NoMetrics
    /\ allEvents = <<>>
    /\ hasInlineIcs = TRUE
    /\ cache = InitialCache
    /\ response = NoResponse
    /\ instanceCount = 0
    /\ iterMs = NoDate
    /\ EnvIdle

\* Handler line 122 for one master.
Expand ==
    /\ pc = "parsed"
    /\ pc' = "expanded"
    /\ expanded' = expandOccurrencesInWindow(ev, windowStartMs, windowEndMs, uidOverrides)
    /\ UNCHANGED <<nowMs, tz, occs, sel, triple, metrics, ev, uidOverrides,
                   windowStartMs, windowEndMs, allEvents, hasInlineIcs, cache, response, loopVars, envVars>>

NextExpand == Expand

SpecExpand == InitExpand /\ [][NextExpand]_vars

-----------------------------------------------------------------------------
(* The handler on requests that carry the calendar inline *)

MaxOrphans == 1

OrphanUid == "o1"

EarlyMorningMs == DayStartMs + 8 * HourMs + 15 * MinuteMs

HandlerNows ==
    {DayStartMs + 8 * HourMs + 20 * MinuteMs, MorningMs + 5 * MinuteMs,
     MorningMs + 15 * MinuteMs, MorningMs + 90 * MinuteMs}

HandlerMasters ==
    {MasterEvent(MorningMs, MorningMs + 15 * MinuteMs, r, x,
                 "Standup", "Room 1", "alice", Null) :
        r \in {NoRule, HourlyRule}, x \in {{}, {MorningMs}}}
    \cup {MasterEvent(MorningMs, NoDate, HourlyRule, {},
                      "Standup", "Room 1", "alice", Null),
          MasterEvent(EarlierDayMs, EarlierDayMs + 15 * MinuteMs, DailyRule, {},
                      "Standup", "Room 1", "alice", Null)}

HandlerOverrides ==
    UNION {{OverrideEvent(MasterUid, r, s, s + 30 * MinuteMs, "Moved", Null, Null, Null) :
                s \in {r, EarlyMorningMs}} :
           r \in {MorningMs, EveningMs}}
    \cup {OverrideEvent(MasterUid, EveningMs, EarlyMorningMs,
                        EarlyMorningMs - 15 * MinuteMs, "Moved", Null, Null, Null),
          OverrideEvent(MasterUid, EarlierDayMs, EarlyMorningMs,
                        EarlyMorningMs + 30 * MinuteMs, "Moved", Null, Null, Null),
          OverrideEvent(MasterUid, MorningMs, MorningMs, MorningMs + 30 * MinuteMs,
                        "Moved", Null, Null, "CANCELLED")}

HandlerOrphans ==
    {OverrideEvent(OrphanUid, MorningMs, s, e, "Left over", Null, Null, Null) :
        s \in {EarlyMorningMs, DayStartMs - 135 * MinuteMs},
        e \in {NoDate, DayStartMs - 110 * MinuteMs}}
    \cup {OverrideEvent(OrphanUid, EveningMs, EarlyMorningMs,
                        EarlyMorningMs - 15 * MinuteMs, "Left over", Null, Null, Null),
          OverrideEvent(OrphanUid, MorningMs, EarlyMorningMs,
                        EarlyMorningMs + 30 * MinuteMs, "Left over", Null, Null,
                        "CANCELLED"),
          OverrideEvent(OrphanUid, MorningMs, EarlyMorningMs,
                        EarlyMorningMs + 30 * MinuteMs, "Canceled: Moved", Null, Null,
                        Null)}


\* The parsed components of a calendar: at most one master, then overrides
\* of its uid, then overrides of a uid without master.
HandlerMasterLists == {<<>>} \cup {<<x>> : x \in HandlerMasters}

HandlerOverrideLists == SeqsUpTo(HandlerOverrides, MaxOverrides)

HandlerOrphanLists == SeqsUpTo(HandlerOrphans, MaxOrphans)

\* A request: the tz and now query parameters (tz Null when absent, now as
\* the instant Date.parse gives, nowValid FALSE when it gives NaN) and the
\* components ICAL.parse finds in the body (parseOk FALSE when it throws).
InlineRequest(z, v, n, k, l) ==
    [tz |-> z, nowValid |-> v, now |-> n, parseOk |-> k, events |-> l]

RequestZones == {Null, "UTC", "Mars/Phobos"}

Body(startMs, endMs, zone, m, t) ==
    [isNull |-> FALSE,
     window |-> [start |-> isoWithTimeZone(startMs, zone),
                 end |-> isoWithTimeZone(endMs, zone), tz |-> zone],
     metrics |-> m, triple |-> t]

\* json(statusCode, obj, extraHeaders)
Json(statusCode, body, error, xCache) ==
    [statusCode |-> statusCode, xCache |-> xCache, body |-> body, error |-> error]

\* An invocation that ends in an error response: startMs and endMs are what
\* the invocation has computed by then (0 before line 85).
Rejected(req, zone, startMs, endMs, statusCode, error) ==
    /\ pc' = "responded"
    /\ tz' = zone
    /\ nowMs' = IF req.nowValid THEN req.now ELSE NoDate
    /\ response' = Json(statusCode, NoBody, error, Null)
    /\ windowStartMs' = startMs
    /\ windowEndMs' = endMs
    /\ allEvents' = <<>>
    /\ occs' = <<>>
    /\ sel' = NoSel
    /\ triple' = NoTriple
    /\ metrics' = NoMetrics

\* The handler on an inline request: no await is taken, so the invocation
\* runs to its response in one step.  The cache is neither read nor written
\* and every other variable is overwritten, so an invocation does not depend
\* on the ones before it: a behaviour follows one invocation from the state
\* the module starts in.
HandleInline(req) ==
    LET zone == OrStr(req.tz, DefaultTZ)
    IN  /\ pc = "idle"
        /\ hasInlineIcs' = TRUE
        /\ IF ~isValidTimeZone(zone)
           THEN Rejected(req, zone, 0, 0, 400, "Invalid timezone")
           ELSE IF ~req.nowValid
           THEN Rejected(req, zone, 0, 0, 400, "Invalid now override")
           ELSE IF ~req.parseOk
           THEN Rejected(req, zone, todayWindow(req.now, zone).startMs,
                         todayWindow(req.now, zone).endMs, 500, "parse")
           ELSE /\ pc' = "responded"
                /\ tz' = zone
                /\ nowMs' = req.now
                /\ windowStartMs' = todayWindow(req.now, zone).startMs
                /\ windowEndMs' = todayWindow(req.now, zone).endMs
                /\ allEvents' = req.events
                /\ occs' = MergedOccs(allEvents', windowStartMs', windowEndMs', nowMs')
                /\ sel' = [current |-> CurrentIdx(occs', nowMs')] @@ TripleIdx(occs', nowMs')
                /\ triple' = computeNextTriple(occs', nowMs', tz')
                /\ metrics' = computeMetrics(occs', nowMs', triple'.next, tz')
                /\ response' = Json(200, Body(windowStartMs', windowEndMs', tz',
                                              metrics', triple'), Null, "MISS")
        /\ UNCHANGED <<cache, ev, uidOverrides, expanded, loopVars, envVars>>

InitInline ==
    /\ pc = "idle"
    /\ cache = InitialCache
    /\ hasInlineIcs = FALSE
    /\ nowMs = NoDate
    /\ tz = DefaultTZ
    /\ allEvents = <<>>
    /\ windowStartMs = 0
    /\ windowEndMs = 0
    /\ occs = <<>>
    /\ sel = NoSel
    /\ triple = NoTriple
    /\ metrics = NoMetrics
    /\ response = NoResponse
    /\ instanceCount = 0
    /\ iterMs = NoDate
    /\ EnvIdle
    /\ ev = NoEvent
    /\ uidOverrides = <<>>
    /\ expanded = <<>>

\* A well-formed request on a calendar, with tz absent (the default zone) or
\* a valid zone.
HandleCalendar ==
    /\ pc = "idle"
    /\ \E z \in {x \in RequestZones : isValidTimeZone(OrStr(x, DefaultTZ))},
          n \in HandlerNows, m \in HandlerMasterLists,
          o \in HandlerOverrideLists, p \in HandlerOrphanLists :
           HandleInline(InlineRequest(z, TRUE, n, TRUE, m \o o \o p))

\* A request with any of its three inputs missing or malformed.
HandleMalformed ==
    /\ pc = "idle"
    /\ \E z \in RequestZones, v \in BOOLEAN, k \in BOOLEAN :
           HandleInline(InlineRequest(z, v, MorningMs + 5 * MinuteMs, k, <<>>))

NextInline == HandleCalendar \/ HandleMalformed

SpecInline == InitInline /\ [][NextInline]_vars

-----------------------------------------------------------------------------
(* The iterator loop of expandOccurrencesInWindow, one step per iteration.
   The iterator is ical.js's: the loop sees it as a sequence of instants that
   ends when next() returns null.  The specification follows the control of
   the loop (what ends it) and leaves aside the occurrences it pushes, which
   ExpandLoop gives. *)

\* instanceCount is a Number, which stops growing under ++ at 2^53: the value
\* that stands for it here.
MaxIterations == 20

\* The instants the iterator may give, in any order and any number of times.
IteratorValues ==
    {EarlierDayMs, DayStartMs - HourMs, MorningMs, MorningMs + HourMs, EveningMs,
     DayEndMs, DayEndMs + HourMs}

InitIterate ==
    /\ pc = "iterating"
    /\ ev = MasterEvent(MorningMs, MorningMs + 15 * MinuteMs, HourlyRule, {},
                        "Standup", "Room 1", "alice", Null)
    /\ uidOverrides = <<>>
    /\ windowStartMs = DayStartMs
    /\ windowEndMs = DayEndMs
    /\ expanded = <<>>
    /\ nowMs = DayStartMs
    /\ tz = "UTC"
    /\ occs = <<>>
    /\ sel = NoSel
    /\ triple = NoTriple
    /\ metrics = NoMetrics
    /\ allEvents = <<>>
    /\ hasInlineIcs = TRUE
    /\ cache = InitialCache
    /\ response = NoResponse
    /\ instanceCount = 0
    /\ iterMs = NoDate
    /\ EnvIdle

\* instanceCount++
CountUp(n) == IF n < MaxIterations THEN n + 1 ELSE n

\* iterator.next() gives an instant: the loop ends at the break when the
\* instant has reached windowEnd, and goes on to the next iteration (after a
\* continue or after the end of the body) otherwise.
IteratorGives ==
    /\ pc = "iterating"
    /\ \E t \in IteratorValues :
          /\ iterMs' = t
          /\ instanceCount' = CountUp(instanceCount)
          /\ pc' = IF t >= windowEndMs THEN "swept" ELSE "iterating"
    /\ UNCHANGED <<nowMs, tz, occs, sel, triple, metrics, ev, uidOverrides,
                   windowStartMs, windowEndMs, expanded, allEvents, hasInlineIcs,
                   cache, response, envVars>>

\* iterator.next() gives null: the while condition ends the loop.
IteratorEnds ==
    /\ pc = "iterating"
    /\ pc' = "swept"
    /\ UNCHANGED <<nowMs, tz, occs, sel, triple, metrics, ev, uidOverrides,
                   windowStartMs, windowEndMs, expanded, allEvents, hasInlineIcs,
                   cache, response, loopVars, envVars>>

NextIterate == IteratorGives \/ IteratorEnds

\* The loop is synchronous code: it takes its next step as long as it has one.
SpecIterate == InitIterate /\ [][NextIterate]_vars /\ WF_vars(NextIterate)

-----------------------------------------------------------------------------
(* The metrics of the next event over instants between whole minutes *)

MaxMinutes == 2

MetricBaseMs == DayStartMs + 9 * HourMs

\* Calendar instants are whole seconds; the seconds chosen lie around the
\* half minute, where Math.round changes its value.
MetricSeconds == {0, 29, 30, 31, 59}

MetricStarts ==
    {MetricBaseMs + m * MinuteMs + k * 1000 : m \in 0..MaxMinutes, k \in MetricSeconds}

\* Date.parse(params.now) and Date.now() give milliseconds.
MetricNows == {MetricBaseMs + d : d \in {0, 1, 500, 999, 1000, 30500}}

MetricZones == {"UTC", "Europe/Nicosia", "Africa/Monrovia"}

MetricLists ==
    {l \in UNION {[1..n -> {TimelineOcc(s, s + DefaultDurationMs) : s \in MetricStarts}] :
                     n \in 0..2} : IsSortedByStart(l)}

InitMetrics ==
    /\ pc = "sorted"
    /\ occs \in MetricLists
    /\ nowMs \in MetricNows
    /\ tz \in MetricZones
    /\ sel = NoSel
    /\ triple = NoTriple
    /\ metrics = NoMetrics
    /\ ev = NoEvent
    /\ uidOverrides = <<>>
    /\ windowStartMs = 0
    /\ windowEndMs = 0
    /\ expanded = <<>>
    /\ allEvents = <<>>
    /\ hasInlineIcs = TRUE
    /\ cache = InitialCache
    /\ response = NoResponse
    /\ instanceCount = 0
    /\ iterMs = NoDate
    /\ EnvIdle

SpecMetrics == InitMetrics /\ [][NextTimeline]_vars

-----------------------------------------------------------------------------
(* todayWindow over the hours around each zone's offset change *)

MaxHours == 72

WindowBaseMs == DayMs + 12 * HourMs

WindowNows ==
    {WindowBaseMs + h * HourMs + m : h \in 0..MaxHours, m \in {0, 30 * MinuteMs}}

InitWindow ==
    /\ pc = "request"
    /\ nowMs \in WindowNows
    /\ tz \in ValidZones
    /\ occs = <<>>
    /\ sel = NoSel
    /\ triple = NoTriple
    /\ metrics = NoMetrics
    /\ ev = NoEvent
    /\ uidOverrides = <<>>
    /\ windowStartMs = 0
    /\ windowEndMs = 0
    /\ expanded = <<>>
    /\ allEvents = <<>>
    /\ hasInlineIcs = TRUE
    /\ cache = InitialCache
    /\ response = NoResponse
    /\ instanceCount = 0
    /\ iterMs = NoDate
    /\ EnvIdle

\* Handler line 85: const { startMs, endMs } = todayWindow(nowMs, tz).
ComputeWindow ==
    /\ pc = "request"
    /\ pc' = "windowed"
    /\ windowStartMs' = todayWindow(nowMs, tz).startMs
    /\ windowEndMs' = todayWindow(nowMs, tz).endMs
    /\ UNCHANGED <<nowMs, tz, occs, sel, triple, metrics, ev, uidOverrides,
                   expanded, allEvents, hasInlineIcs, cache, response, loopVars, envVars>>

NextWindow == ComputeWindow

SpecWindow == InitWindow /\ [][NextWindow]_vars

-----------------------------------------------------------------------------
(* normalizeIcsTimezones over calendar texts.  A text is the sequence of its
   lines that the two regular expressions can see: BEGIN:VTIMEZONE, a
   "TZID:<id>" property line, END:VTIMEZONE, and a property line carrying a
   "TZID=<id>" parameter. *)

MaxLines == 4

BeginLine == [kind |-> "BEGIN:VTIMEZONE", id |-> Null]
EndLine == [kind |-> "END:VTIMEZONE", id |-> Null]
TzidLine(id) == [kind |-> "TZID:", id |-> id]
RefLine(id) == [kind |-> "TZID=", id |-> id]

ZoneIds == {"FLE Standard Time", "Pacific Standard Time", "Eastern Standard Time",
            "Custom Zone"}

IcsLines ==
    {BeginLine, EndLine} \cup {TzidLine(id) : id \in ZoneIds}
                         \cup {RefLine(id) : id \in ZoneIds}

\* findIana(winTz)[0] of windows-iana, Null when the list is empty.
findIana(winTz) ==
    CASE winTz = "FLE Standard Time" -> "Europe/Kiev"
      [] winTz = "Pacific Standard Time" -> "America/Los_Angeles"
      [] winTz = "Eastern Standard Time" -> "America/New_York"
      [] OTHER -> Null

\* The least position at or after i whose line is of the kind, 0 when none.
RECURSIVE FirstLine(_, _, _)
FirstLine(text, kind, i) ==
    IF i > Len(text) THEN 0
    ELSE IF text[i].kind = kind THEN i
    ELSE FirstLine(text, kind, i + 1)

\* Variant of vtimezonesFrom that collects nothing.
NoVtimezones(text, i) == {}

\* The exec loop of vtzRegex from position i: BEGIN:VTIMEZONE, lazily the
\* first "TZID:" after it, lazily the first END:VTIMEZONE after that; the
\* next match is searched after that END.
RECURSIVE vtimezonesFrom(_, _)
vtimezonesFrom(text, i) ==
    LET b == FirstLine(text, "BEGIN:VTIMEZONE", i)
        t == IF b = 0 THEN 0 ELSE FirstLine(text, "TZID:", b + 1)
        e == IF t = 0 THEN 0 ELSE FirstLine(text, "END:VTIMEZONE", t + 1)
    IN  IF e = 0 THEN {} ELSE {text[t].id} \cup vtimezonesFrom(text, e + 1)

\* The replacer of replaceAll for one match of /TZID=([^:;\r\n]+)/.
ReplaceTzid(vtimezones, winTz) ==
    IF winTz \in vtimezones THEN winTz
    ELSE IF findIana(winTz) = Null THEN winTz
    ELSE IF winTz = "FLE Standard Time" THEN "Europe/Nicosia"
    ELSE IF winTz = "Pacific Standard Time" THEN "America/Los_Angeles"
    ELSE findIana(winTz)

normalizeIcsTimezones(text) ==
    LET vtimezones == vtimezonesFrom(text, 1)
    IN  [i \in 1..Len(text) |->
            IF text[i].kind = "TZID="
            THEN RefLine(ReplaceTzid(vtimezones, text[i].id))
            ELSE text[i]]

InitNormalize ==
    /\ pc = "fetched"
    /\ icsText \in UNION {[1..n -> IcsLines] : n \in 0..MaxLines}
    /\ fixedIcs = <<>>
    /\ icsUrl = Null
    /\ pending = EmptyBag
    /\ nowMs = NoDate
    /\ tz = DefaultTZ
    /\ occs = <<>>
    /\ sel = NoSel
    /\ triple = NoTriple
    /\ metrics = NoMetrics
    /\ ev = NoEvent
    /\ uidOverrides = <<>>
    /\ windowStartMs = 0
    /\ windowEndMs = 0
    /\ expanded = <<>>
    /\ allEvents = <<>>
    /\ hasInlineIcs = TRUE
    /\ cache = InitialCache
    /\ response = NoResponse
    /\ instanceCount = 0
    /\ iterMs = NoDate

\* Handler line 102: const fixedIcs = normalizeIcsTimezones(icsText).
Normalize ==
    /\ pc = "fetched"
    /\ pc' = "normalized"
    /\ fixedIcs' = normalizeIcsTimezones(icsText)
    /\ UNCHANGED <<nowMs, tz, occs, sel, triple, metrics, ev, uidOverrides,
                   windowStartMs, windowEndMs, expanded, allEvents, hasInlineIcs,
                   cache, response, loopVars, icsUrl, pending, icsText>>

NextNormalize == Normalize

SpecNormalize == InitNormalize /\ [][NextNormalize]_vars

-----------------------------------------------------------------------------
(* A warm container: invocations one after another, inline or URL-based, over
   the module-level cache.  An inline invocation takes no await and runs to
   its response in one step; a URL-based one is suspended at
   await fetchText(icsUrl), where other invocations may run. *)

MaxAge == 3
MaxPending == 3

CacheRequest(b, z, v, n) == [inline |-> b, tz |-> z, nowValid |-> v, now |-> n]

\* The now of a request: half a cache lifetime apart, so that ages below, at
\* and above CACHE_MS and negative ages occur.
CacheNows == {MorningMs + k * (CACHE_MS \div 2) : k \in 0..MaxAge}

\* What the fetch and the parse give: a throwing fetch, a text ICAL.parse
\* rejects, or the components of a calendar.
CacheOutcomes ==
    {[fetchOk |-> FALSE, parseOk |-> FALSE, events |-> <<>>],
     [fetchOk |-> TRUE, parseOk |-> FALSE, events |-> <<>>],
     [fetchOk |-> TRUE, parseOk |-> TRUE, events |-> <<>>],
     [fetchOk |-> TRUE, parseOk |-> TRUE,
      events |-> <<MasterEvent(MorningMs + 5 * MinuteMs, MorningMs + 15 * MinuteMs,
                               NoRule, {}, "Standup", "Room 1", "alice", Null)>>]}

\* Line 80: !hasInlineIcs && cache.body && (nowMs - cache.at) < CACHE_MS
CacheHit(inline, c, now) == ~inline /\ ~c.body.isNull /\ now - c.at < CACHE_MS

\* Variant of StoreCache that stores the result of every invocation.
StoreCacheAlways(inline, c, now, body) == [at |-> now, body |-> body]

\* Lines 188-190: if (!hasInlineIcs) cache = { at: nowMs, body }
StoreCache(inline, c, now, body) == IF inline THEN c ELSE [at |-> now, body |-> body]

\* Variant of FailedCache that drops the stored body when an invocation fails.
FailedCacheCleared(c) == InitialCache

\* The cache after an invocation that ends in the catch block or in an early
\* return: no statement of those paths assigns it.
FailedCache(c) == c

\* Lines 105-185 on the parsed components, and the 200 response.
Answered(inline, zone, now, events) ==
    /\ pc' = "responded"
    /\ hasInlineIcs' = inline
    /\ tz' = zone
    /\ nowMs' = now
    /\ windowStartMs' = todayWindow(now, zone).startMs
    /\ windowEndMs' = todayWindow(now, zone).endMs
    /\ allEvents' = events
    /\ occs' = MergedOccs(allEvents', windowStartMs', windowEndMs', nowMs')
    /\ sel' = [current |-> CurrentIdx(occs', nowMs')] @@ TripleIdx(occs', nowMs')
    /\ triple' = computeNextTriple(occs', nowMs', tz')
    /\ metrics' = computeMetrics(occs', nowMs', triple'.next, tz')
    /\ response' = Json(200, Body(windowStartMs', windowEndMs', tz', metrics', triple'),
                        Null, "MISS")
    /\ cache' = StoreCache(inline, cache, now, response'.body)

\* An invocation that ends in an error response.
Failed(inline, req, zone, startMs, endMs, statusCode, error) ==
    /\ hasInlineIcs' = inline
    /\ Rejected(req, zone, startMs, endMs, statusCode, error)
    /\ cache' = FailedCache(cache)

\* Lines 46-99: the handler from its entry to its first await, or to its
\* response when it takes none.  Each input is drawn where the handler first
\* reads it.
Invoke ==
    /\ pc = "idle"
    /\ \E b \in BOOLEAN, z \in RequestZones :
        LET zone == OrStr(z, DefaultTZ)
            unread == CacheRequest(b, z, FALSE, NoDate)
        IN  IF ~b /\ icsUrl = Null
            THEN Failed(b, unread, zone, 0, 0, 500, "ICS_URL env var is missing")
                 /\ UNCHANGED pending
            ELSE IF ~isValidTimeZone(zone)
            THEN Failed(b, unread, zone, 0, 0, 400, "Invalid timezone")
                 /\ UNCHANGED pending
            ELSE \E v \in BOOLEAN :
                 IF ~v
                 THEN Failed(b, unread, zone, 0, 0, 400, "Invalid now override")
                      /\ UNCHANGED pending
                 ELSE \E n \in CacheNows :
                      IF CacheHit(b, cache, n)
                      THEN /\ pc' = "responded"
                           /\ hasInlineIcs' = b
                           /\ tz' = zone
                           /\ nowMs' = n
                           /\ response' = Json(200, cache.body, Null, "HIT")
                           /\ UNCHANGED <<cache, pending, windowStartMs, windowEndMs,
                                          allEvents, occs, sel, triple, metrics>>
                      ELSE IF ~b
                      THEN /\ BagCardinality(pending) < MaxPending
                           /\ pending' = pending (+) SetToBag({[tz |-> zone, now |-> n]})
                           /\ UNCHANGED <<pc, hasInlineIcs, tz, nowMs, response, cache,
                                          windowStartMs, windowEndMs, allEvents, occs,
                                          sel, triple, metrics>>
                      ELSE \E o \in {x \in CacheOutcomes : x.fetchOk} :
                           /\ UNCHANGED pending
                           /\ IF ~o.parseOk
                              THEN Failed(b, CacheRequest(b, z, TRUE, n), zone,
                                          todayWindow(n, zone).startMs,
                                          todayWindow(n, zone).endMs, 500, "parse")
                              ELSE Answered(b, zone, n, o.events)
    /\ UNCHANGED <<ev, uidOverrides, expanded, loopVars, icsUrl, icsText, fixedIcs>>

\* Lines 99-192: a suspended invocation resumes with what the fetch gave.
FetchReturns ==
    /\ pc = "idle"
    /\ \E p \in BagToSet(pending), o \in CacheOutcomes :
        LET req == CacheRequest(FALSE, p.tz, TRUE, p.now)
            startMs == todayWindow(p.now, p.tz).startMs
            endMs == todayWindow(p.now, p.tz).endMs
        IN  /\ pending' = pending (-) SetToBag({p})
            /\ IF ~o.fetchOk
               THEN Failed(FALSE, req, p.tz, startMs, endMs, 500, "fetch")
               ELSE IF ~o.parseOk
               THEN Failed(FALSE, req, p.tz, startMs, endMs, 500, "parse")
               ELSE Answered(FALSE, p.tz, p.now, o.events)
    /\ UNCHANGED <<ev, uidOverrides, expanded, loopVars, icsUrl, icsText, fixedIcs>>

\* The response has been returned and the invocation's locals are gone; the
\* container takes the next event.
Return ==
    /\ pc = "responded"
    /\ pc' = "idle"
    /\ hasInlineIcs' = FALSE
    /\ nowMs' = NoDate
    /\ tz' = DefaultTZ
    /\ allEvents' = <<>>
    /\ windowStartMs' = 0
    /\ windowEndMs' = 0
    /\ occs' = <<>>
    /\ sel' = NoSel
    /\ triple' = NoTriple
    /\ metrics' = NoMetrics
    /\ response' = NoResponse
    /\ UNCHANGED <<cache, ev, uidOverrides, expanded, loopVars, envVars>>

InitCache ==
    /\ pc = "idle"
    /\ icsUrl \in {Null, "https://calendar.example/basic.ics"}
    /\ cache = InitialCache
    /\ pending = EmptyBag
    /\ icsText = <<>>
    /\ fixedIcs = <<>>
    /\ hasInlineIcs = FALSE
    /\ nowMs = NoDate
    /\ tz = DefaultTZ
    /\ allEvents = <<>>
    /\ windowStartMs = 0
    /\ windowEndMs = 0
    /\ occs = <<>>
    /\ sel = NoSel
    /\ triple = NoTriple
    /\ metrics = NoMetrics
    /\ response = NoResponse
    /\ instanceCount = 0
    /\ iterMs = NoDate
    /\ ev = NoEvent
    /\ uidOverrides = <<>>
    /\ expanded = <<>>

NextCache == Invoke \/ FetchReturns \/ Return

SpecCache == InitCache /\ [][NextCache]_vars

-----------------------------------------------------------------------------
(* The handler on one calendar with its components in every order *)

MaxComponents == 3

\* Two masters of different uids whose first occurrences start together, two
\* overrides of the same instance that differ in what they change, and an
\* orphaned override.
OrderComponents ==
    {MasterEvent(MorningMs, MorningMs + 15 * MinuteMs, HourlyRule, {},
                 "Standup", "Room 1", "alice", Null),
     [MasterEvent(MorningMs, MorningMs + 30 * MinuteMs, NoRule, {},
                  "Review", "Room 2", "bob", Null) EXCEPT !.uid = "m2"],
     OverrideEvent(MasterUid, MorningMs + HourMs, MorningMs + HourMs,
                   MorningMs + HourMs + 30 * MinuteMs, "Moved", Null, Null, Null),
     OverrideEvent(MasterUid, MorningMs + HourMs, EarlyMorningMs,
                   EarlyMorningMs + 30 * MinuteMs, "Moved early", Null, Null, Null),
     OverrideEvent(OrphanUid, MorningMs, MorningMs, MorningMs + 30 * MinuteMs,
                   "Left over", Null, Null, Null)}

\* A request on a calendar whose components come in any order.
HandleAnyOrder ==
    /\ pc = "idle"
    /\ \E z \in {x \in RequestZones : isValidTimeZone(OrStr(x, DefaultTZ))},
          n \in {EarlyMorningMs - 5 * MinuteMs, MorningMs + 5 * MinuteMs},
          l \in SeqsUpTo(OrderComponents, MaxComponents) :
           HandleInline(InlineRequest(z, TRUE, n, TRUE, l))

NextOrder == HandleAnyOrder

SpecOrder == InitInline /\ [][NextOrder]_vars

-----------------------------------------------------------------------------
(* Claims about the timeline analysis (SpecTimeline) *)

Analyzed == pc = "analyzed"

HalfOpenAt(j) == occs[j].startMs <= nowMs /\ nowMs < occs[j].endMs

\* The first position of occs whose interval holds now, 0 when none does.
FirstHalfOpen ==
    IF \E j \in 1..Len(occs) : HalfOpenAt(j)
    THEN CHOOSE j \in 1..Len(occs) :
            HalfOpenAt(j) /\ \A k \in 1..(j - 1) : ~HalfOpenAt(k)
    ELSE 0

\* C1: current is the first occurrence in list order with start <= now < end,
\* null when there is none; an occurrence ending exactly at now is never
\* current, and one starting exactly at now (ending later) qualifies.
C1_CurrentIsFirstHalfOpen ==
    Analyzed =>
        /\ sel.current = FirstHalfOpen
        /\ metrics.current = DtoAt(occs, FirstHalfOpen, tz)
        /\ metrics.current.isNull = (\A j \in 1..Len(occs) : ~HalfOpenAt(j))
        /\ \A j \in 1..Len(occs) :
              /\ occs[j].endMs = nowMs => sel.current # j
              /\ (occs[j].startMs = nowMs /\ occs[j].endMs > nowMs) =>
                    /\ sel.current # 0
                    /\ sel.current <= j

\* An occurrence that starts exactly at now is current although an earlier
\* one in the list ended exactly at now.
C1_Witness ==
    /\ Analyzed
    /\ sel.current > 1
    /\ occs[sel.current].startMs = nowMs
    /\ \E j \in 1..(sel.current - 1) : occs[j].endMs = nowMs /\ occs[j].startMs < nowMs

\* The instant next is searched from, as the claim states it.
ClaimedSearchFrom == IF sel.current # 0 THEN occs[sel.current].endMs ELSE nowMs

\* C2: with a current occurrence, next is the first occurrence in list order
\* with start >= current.end; without one, the first with start >= now; next
\* is never the occurrence reported as current.
C2_NextNotBeforeCurrentEnd ==
    Analyzed =>
        /\ sel.next # 0 =>
              /\ occs[sel.next].startMs >= ClaimedSearchFrom
              /\ \A j \in 1..(sel.next - 1) : occs[j].startMs < ClaimedSearchFrom
              /\ sel.next # sel.current
              /\ triple.next # metrics.current
        /\ sel.next = 0 =>
              \A j \in 1..Len(occs) : occs[j].startMs < ClaimedSearchFrom
        /\ triple.next = DtoAt(occs, sel.next, tz)

\* A current occurrence exists, an occurrence starts after now but before
\* current ends, and next is a later one.
C2_Witness ==
    /\ Analyzed
    /\ sel.current # 0
    /\ sel.next # 0
    /\ \E j \in 1..Len(occs) :
          occs[j].startMs > nowMs /\ occs[j].startMs < occs[sel.current].endMs

OverlapsNextAt(j) ==
    /\ occs[j].startMs < occs[sel.next].endMs
    /\ occs[j].endMs > occs[sel.next].startMs

\* C6: nextOverlapping, when non-null, lies after next in the list, overlaps
\* next (start < next.end and end > next.start) and is the first such
\* occurrence after next; it is null when next is null.
C6_NextOverlappingIsFirstOverlap ==
    Analyzed =>
        /\ sel.nextOverlapping # 0 =>
              /\ sel.next # 0
              /\ sel.nextOverlapping > sel.next
              /\ OverlapsNextAt(sel.nextOverlapping)
              /\ \A j \in (sel.next + 1)..(sel.nextOverlapping - 1) : ~OverlapsNextAt(j)
        /\ sel.next = 0 => (sel.nextOverlapping = 0 /\ triple.nextOverlapping.isNull)
        /\ triple.nextOverlapping = DtoAt(occs, sel.nextOverlapping, tz)

\* nextOverlapping is found behind an occurrence that does not overlap next.
C6_Witness ==
    /\ Analyzed
    /\ sel.next # 0
    /\ sel.nextOverlapping > sel.next + 1

\* Whether c closes the overlap cluster of the occurrence at position n:
\* every later occurrence that starts before c also ends by c.
ClosesCluster(n, c) ==
    /\ c >= occs[n].endMs
    /\ \A j \in (n + 1)..Len(occs) : occs[j].startMs < c => occs[j].endMs <= c

\* The end of the fully grown transitive overlap cluster of position n: the
\* least instant closing it.
FullClusterEnd(n) ==
    LET ends == {occs[j].endMs : j \in n..Len(occs)}
    IN  CHOOSE c \in ends :
            ClosesCluster(n, c) /\ \A d \in ends : ClosesCluster(n, d) => c <= d

\* C7: nextNonOverlapping, when non-null, starts at or after the end of the
\* fully grown cluster of next and every occurrence between next and it
\* starts before that end; it is null exactly when no occurrence after next
\* starts at or after the cluster end.
C7_NextNonOverlappingAfterCluster ==
    (Analyzed /\ sel.next # 0) =>
        LET ce == FullClusterEnd(sel.next)
            nn == sel.nextNonOverlapping
        IN  /\ nn # 0 =>
                  /\ nn > sel.next
                  /\ occs[nn].startMs >= ce
                  /\ \A j \in (sel.next + 1)..(nn - 1) : occs[j].startMs < ce
            /\ (nn = 0) = (\A j \in (sel.next + 1)..Len(occs) : occs[j].startMs < ce)
            /\ triple.nextNonOverlapping = DtoAt(occs, nn, tz)

\* The cluster of next grew past next.end and an occurrence after it is
\* reported as nextNonOverlapping.
C7_Witness ==
    /\ Analyzed
    /\ sel.next # 0
    /\ sel.nextNonOverlapping # 0
    /\ FullClusterEnd(sel.next) > occs[sel.next].endMs

-----------------------------------------------------------------------------
(* Claims about the handler's merged occurrence list (SpecInline) *)

Responded == pc = "responded" /\ response.statusCode = 200

\* C3: every occurrence of the merged list the handler hands to the timeline
\* analysis, whichever pass produced it, ends after it starts.
C3_OutputEndAfterStart ==
    Responded => \A i \in 1..Len(occs) : occs[i].endMs > occs[i].startMs

\* The recurring masters of the parsed calendar.
IsRecurringMaster(e) == e.uid # Null /\ e.recurrenceId = NoDate /\ e.rrule.has

\* The override the calendar stores for a master's recurrence instant.
OverrideFor(events, master, t) ==
    MapGet(InnerMap(OverridesByUid(events, 1, <<>>), master.uid), t)

\* The start of the instance at recurrence instant t, and its end: the end
\* its override states, or else the start plus the applicable duration.
InstanceStart(override, t) ==
    IF override # NoEvent /\ override.start # NoDate THEN override.start ELSE t

InstanceEnd(master, override, t) ==
    IF override # NoEvent /\ override.end # NoDate
    THEN override.end
    ELSE calcEndMs(master, InstanceStart(override, t), override)

NonCancelledInstance(master, override) ==
    /\ master.status # "CANCELLED"
    /\ override.status # "CANCELLED"
    /\ ~StartsWithCanceled(BaseTitle(master))
    /\ ~StartsWithCanceled(override.summary)

\* The occurrence list holds the instance at recurrence instant t.
HoldsInstance(list, master, t, startMs) ==
    \E j \in 1..Len(list) :
        /\ list[j].uid = master.uid
        /\ list[j].recId = t
        /\ list[j].startMs = startMs
        /\ list[j].endMs > nowMs

\* C5: every non-excluded, non-cancelled instance of a recurring master that
\* starts in the window (before now as well as after it) and ends after now
\* is in the list handed to the timeline analysis; and an instance that
\* starts at or after now and after the current occurrence's end gives the
\* response a next that starts no later.
C5_ExpansionFromWindowStart ==
    Responded =>
      \A i \in 1..Len(allEvents) :
        IsRecurringMaster(allEvents[i]) =>
          \A k \in 0..(allEvents[i].rrule.count - 1) :
            LET master == allEvents[i]
                t == IteratorInstant(master, k)
                override == OverrideFor(allEvents, master, t)
                s == InstanceStart(override, t)
                e == InstanceEnd(master, override, t)
            IN  (/\ ~isExcluded(t, master.exdate)
                 /\ NonCancelledInstance(master, override)
                 /\ windowStartMs <= s
                 /\ s < windowEndMs
                 /\ e > nowMs)
                => /\ HoldsInstance(occs, master, t, s)
                   /\ (/\ s >= nowMs
                       /\ sel.current # 0 => s >= occs[sel.current].endMs)
                      => /\ sel.next # 0
                         /\ occs[sel.next].startMs <= s

\* An instance that began before now is the current occurrence, and an
\* earlier instance of the same master has ended and is not in the list.
C5_Witness ==
    /\ Responded
    /\ sel.current # 0
    /\ occs[sel.current].path = "instance"
    /\ windowStartMs <= occs[sel.current].startMs
    /\ occs[sel.current].startMs < nowMs
    /\ \E i \in 1..Len(allEvents) :
          /\ IsRecurringMaster(allEvents[i])
          /\ allEvents[i].uid = occs[sel.current].uid
          /\ allEvents[i].start < occs[sel.current].recId

\* The calendar holds a component of the uid without recurrence identifier.
HasMaster(events, uid) ==
    \E i \in 1..Len(events) : events[i].uid = uid /\ events[i].recurrenceId = NoDate

\* The entries the calendar's override maps hold for uids without a master.
OrphanedEntries(events) ==
    LET byUid == OverridesByUid(events, 1, <<>>)
    IN  UNION {{byUid[i].value[j] : j \in 1..Len(byUid[i].value)} :
               i \in {u \in 1..Len(byUid) : ~HasMaster(events, byUid[u].key)}}

\* The positions of the merged list that hold an occurrence of an override.
PositionsOf(list, entry) ==
    {j \in 1..Len(list) : list[j].uid = entry.value.uid /\ list[j].recId = entry.key}

\* C11: an orphaned override (the component the calendar holds for a uid
\* without master and a recurrence identifier) that is not cancelled and
\* starts inside the window is in the merged list exactly once, whatever
\* else the calendar holds and wherever now lies.
C11_OrphanEmittedOnce ==
    Responded =>
      \A entry \in OrphanedEntries(allEvents) :
        (/\ entry.value.status # "CANCELLED"
         /\ entry.value.start # NoDate
         /\ entry.value.start >= windowStartMs
         /\ entry.value.start < windowEndMs)
        => Cardinality(PositionsOf(occs, entry)) = 1

\* An orphaned override that ended before now is in the list next to the
\* occurrences of a master.
C11_Witness ==
    /\ Responded
    /\ \E entry \in OrphanedEntries(allEvents) :
          /\ Cardinality(PositionsOf(occs, entry)) = 1
          /\ \E j \in PositionsOf(occs, entry) :
                occs[j].path = "orphan" /\ occs[j].endMs < nowMs
    /\ \E j \in 1..Len(occs) : occs[j].path = "instance"

\* C12: a non-cancelled orphaned override is in the merged list if and only
\* if its interval overlaps the window: start < windowEnd and end > windowStart.
C12_OrphanWindowOverlap ==
    Responded =>
      \A entry \in OrphanedEntries(allEvents) :
        (entry.value.status # "CANCELLED" /\ entry.value.start # NoDate)
        => (PositionsOf(occs, entry) # {}
            <=> OverlapsWindow(entry.value.start, StandaloneEndMs(entry.value),
                               windowStartMs, windowEndMs))

\* A component that is cancelled by its status or by its title.
SourceCancelled(e) == e.status = "CANCELLED" \/ StartsWithCanceled(e.summary)

\* C13: no occurrence of the merged list derives from a cancelled master or
\* from a cancelled override, whichever path emitted it.
C13_NoCancelledSource ==
    Responded =>
      \A j \in 1..Len(occs) :
        /\ ~SourceCancelled(
              MapGet(InnerMap(OverridesByUid(allEvents, 1, <<>>), occs[j].uid),
                     occs[j].recId))
        /\ \A i \in 1..Len(allEvents) :
              (allEvents[i].uid = occs[j].uid /\ allEvents[i].recurrenceId = NoDate)
              => ~SourceCancelled(allEvents[i])

-----------------------------------------------------------------------------
(* Claims about expandOccurrencesInWindow (SpecExpand) *)

Expanded == pc = "expanded"

\* The instants the recurrence rule of a master yields.
RuleInstants(master) ==
    IF master.rrule.has
    THEN {IteratorInstant(master, k) : k \in 0..(master.rrule.count - 1)}
    ELSE {}

\* A master whose own duration is one the expansion accepts.
HasValidDuration(master) ==
    /\ master.start # NoDate
    /\ master.end # NoDate
    /\ master.end - master.start > 0
    /\ master.end - master.start < SanityDurationMs

\* C4: for a recurring master with duration d = end - start, every emitted
\* instance without an explicit end of its own (no override, or an override
\* that gives no end) lasts exactly d.
C4_RecurrenceDurationLaw ==
    (Expanded /\ ev.rrule.has /\ HasValidDuration(ev)) =>
      \A i \in 1..Len(expanded) :
        LET o == expanded[i]
            override == MapGet(uidOverrides, o.recId)
        IN  (o.path = "instance" /\ (override = NoEvent \/ override.end = NoDate))
            => o.endMs - o.startMs = ev.end - ev.start

\* The value an emitted field takes when the override may omit it.
FieldOrMaster(overrideValue, masterValue) ==
    IF overrideValue = "" \/ overrideValue = Null THEN masterValue ELSE overrideValue

\* C8: for an instance matched by a non-cancelled override, each of title,
\* location and organizer is the override's value when the override carries
\* the field and the master's value when it omits it.
C8_OverrideFieldMerging ==
    Expanded =>
      \A i \in 1..Len(expanded) :
        LET o == expanded[i]
            override == MapGet(uidOverrides, o.recId)
        IN  (o.path = "instance" /\ override # NoEvent)
            => /\ o.title = FieldOrMaster(override.summary, BaseTitle(ev))
               /\ o.location = FieldOrMaster(override.location, OrStr(ev.location, Null))
               /\ o.organizer = FieldOrMaster(override.organizer, ev.organizer)

\* C9: no occurrence is emitted for a recurrence instant of the master that
\* is one of the master's exception instants, whether or not the override
\* map holds an override for that instant.
C9_ExcludedInstantNeverEmitted ==
    Expanded =>
      \A i \in 1..Len(expanded) :
        ~(/\ expanded[i].recId \in RuleInstants(ev)
          /\ isExcluded(expanded[i].recId, ev.exdate))

\* An override the expansion cannot match: its recurrence identifier is not
\* an instant of the master's rule (every override of a non-recurring master).
Unmatched(master, recIdMs) == recIdMs \notin RuleInstants(master)

\* The cancellation rules of matched instances, applied to an override.
CancelledOverride(master, override) ==
    \/ override.status = "CANCELLED"
    \/ IsCancelledOcc(mkOcc(master, override.start, override, NoDate, "instance"))

\* C10: an override that was not matched to a candidate instant is emitted as
\* a standalone occurrence exactly when it is not cancelled and overlaps the
\* window, its end computed by the end-time rule of matched instances.
C10_UnmatchedOverrideStandalone ==
    Expanded =>
      \A j \in 1..Len(uidOverrides) :
        LET recIdMs == uidOverrides[j].key
            override == uidOverrides[j].value
            endMs == calcEndMs(ev, override.start, override)
            due == /\ override.start # NoDate
                   /\ ~CancelledOverride(ev, override)
                   /\ OverlapsWindow(override.start, endMs, windowStartMs, windowEndMs)
            emitted == {i \in 1..Len(expanded) : expanded[i].recId = recIdMs}
        IN  Unmatched(ev, recIdMs)
            => /\ due <=> emitted # {}
               /\ \A i \in emitted :
                    /\ expanded[i].startMs = override.start
                    /\ expanded[i].endMs = endMs

\* The override stored under a recurrence identifier, NoEvent when none is.
StoredOverride(overrides, recIdMs) ==
    IF \E i \in 1..Len(overrides) : overrides[i].key = recIdMs
    THEN overrides[CHOOSE i \in 1..Len(overrides) : overrides[i].key = recIdMs].value
    ELSE NoEvent

\* C14: an instance takes the override whose recurrence identifier equals
\* its candidate instant (its start is that override's start, or the instant
\* itself when no override has that identifier, whatever starts other
\* overrides give), and no occurrence is emitted for an instant whose
\* override is CANCELLED, by the loop or by the sweep.
C14_OverrideMatchedByRecurrenceId ==
    Expanded =>
      \A i \in 1..Len(expanded) :
        LET o == expanded[i]
            override == StoredOverride(uidOverrides, o.recId)
        IN  /\ o.path = "instance"
               => /\ o.recId \in RuleInstants(ev)
                  /\ o.startMs = (IF override.start # NoDate
                                  THEN override.start ELSE o.recId)
            /\ o.path \in {"instance", "sweep"} => override.status # "CANCELLED"

\* The override of one instant moves it onto the next instant of the rule:
\* the instance of that next instant is emitted as the rule gives it, next
\* to the moved one.
C14_Witness ==
    /\ Expanded
    /\ \E i \in 1..Len(expanded) :
          /\ expanded[i].path = "instance"
          /\ StoredOverride(uidOverrides, expanded[i].recId) = NoEvent
          /\ \E j \in 1..Len(expanded) :
                /\ expanded[j].path = "instance"
                /\ expanded[j].recId # expanded[i].recId
                /\ expanded[j].startMs = expanded[i].recId

\* The exhaustive scan: the loop of expandOccurrencesInWindow over every
\* instant before windowEnd, none skipped; acc as in ExpandLoop.
RECURSIVE ExhaustiveLoop(_, _, _, _, _, _)
ExhaustiveLoop(master, ws, we, ovs, k, acc) ==
    IF k >= master.rrule.count THEN acc
    ELSE
      LET occMs == IteratorInstant(master, k)
          override == StoredOverride(ovs, occMs)
          used == IF override # NoEvent
                  THEN acc.usedOverrides \cup {occMs}
                  ELSE acc.usedOverrides
          startMs == IF override.start # NoDate THEN override.start ELSE occMs
          occ == mkOcc(master, startMs, override, occMs, "instance")
      IN  IF occMs >= we THEN acc
          ELSE IF isExcluded(occMs, master.exdate)
               THEN ExhaustiveLoop(master, ws, we, ovs, k + 1, acc)
          ELSE IF /\ override.status # "CANCELLED"
                  /\ OverlapsWindow(startMs, occ.endMs, ws, we)
                  /\ ~IsCancelledOcc(occ)
               THEN ExhaustiveLoop(master, ws, we, ovs, k + 1,
                                   [occs |-> Append(acc.occs, occ), usedOverrides |-> used])
          ELSE ExhaustiveLoop(master, ws, we, ovs, k + 1,
                              [acc EXCEPT !.usedOverrides = used])

\* The result of the exhaustive scan followed by the sweep.
ExhaustiveScan(master, ws, we, ovs) ==
    LET l == ExhaustiveLoop(master, ws, we, ovs, 0,
                            [occs |-> <<>>, usedOverrides |-> {}])
    IN  SweepLoop(master, ws, we, ovs, l.usedOverrides, 1, l.occs)

\* The members of an occurrence object that the response can show.
Shown(o) ==
    [uid |-> o.uid, title |-> o.title, location |-> o.location,
     organizer |-> o.organizer, startMs |-> o.startMs, endMs |-> o.endMs]

ShownSet(list) == {Shown(list[i]) : i \in 1..Len(list)}

\* C15: for a recurring master whose duration the duration rule accepts, the
\* expansion with the fast-skip returns the occurrences of the exhaustive scan.
C15_FastSkipChangesNothing ==
    (Expanded /\ ev.rrule.has /\ HasValidDuration(ev)) =>
      ShownSet(expanded)
        = ShownSet(ExhaustiveScan(ev, windowStartMs, windowEndMs, uidOverrides))

\* C17: a non-recurring, timed, non-cancelled master is returned if and only
\* if the interval of the occurrence it would emit, its end corrected by the
\* duration rule, overlaps the window; every returned occurrence overlaps it.
C17_SingleEventInclusion ==
    (/\ Expanded
     /\ ~ev.rrule.has
     /\ ev.datetype # "date"
     /\ ev.start # NoDate
     /\ ~SourceCancelled(ev))
    => /\ expanded # <<>>
          <=> OverlapsWindow(ev.start, calcEndMs(ev, ev.start, NoEvent),
                             windowStartMs, windowEndMs)
       /\ \A i \in 1..Len(expanded) :
             OverlapsWindow(expanded[i].startMs, expanded[i].endMs,
                            windowStartMs, windowEndMs)

\* C18: every occurrence the expansion emits, on every path, lasts a
\* strictly positive time below the one-week sanity bound, or the default.
C18_DurationsSaneOrDefault ==
    Expanded =>
      \A i \in 1..Len(expanded) :
        LET d == expanded[i].endMs - expanded[i].startMs
        IN  (d > 0 /\ d < SanityDurationMs) \/ d = DefaultDurationMs

-----------------------------------------------------------------------------
(* Claims about the iterator loop (SpecIterate) *)

\* C16: the loop over the iterator ends, whatever sequence of instants the
\* iterator gives.
C16_ExpansionTerminates == <>(pc = "swept")

\* The instant from which an occurrence counts as upcoming: the end of the
\* first occurrence holding now, else now.
UpcomingFrom == IF FirstHalfOpen # 0 THEN occs[FirstHalfOpen].endMs ELSE nowMs

\* C26 as stated: if some occurrence other than current starts after now,
\* next and minutesUntilNext are non-null, also when that occurrence starts
\* while current is still running.
C26_NextNullOnlyWithoutUpcoming ==
    Analyzed =>
        ((\E j \in 1..Len(occs) : j # FirstHalfOpen /\ occs[j].startMs > nowMs) =>
            /\ ~triple.next.isNull
            /\ metrics.minutesUntilNext # NoDate)

\* C26, amended: if some occurrence starts at or after the end of current
\* (at or after now when nothing is current), next and minutesUntilNext are
\* non-null; an occurrence that starts while current is running does not count.
C26_NextNullOnlyWithoutLaterStart ==
    Analyzed =>
        ((\E j \in 1..Len(occs) : occs[j].startMs >= UpcomingFrom) =>
            /\ sel.next # 0
            /\ ~triple.next.isNull
            /\ metrics.minutesUntilNext # NoDate)

\* Something is current, one occurrence starts while it runs and another
\* exactly when it ends: next is non-null.
C26_Witness ==
    /\ Analyzed
    /\ FirstHalfOpen # 0
    /\ \E j \in 1..Len(occs) :
          occs[j].startMs > nowMs /\ occs[j].startMs < occs[FirstHalfOpen].endMs
    /\ \E j \in 1..Len(occs) : occs[j].startMs = occs[FirstHalfOpen].endMs
    /\ ~triple.next.isNull
    /\ metrics.minutesUntilNext # NoDate

\* The occurrence at position j and next share an instant.
SharesTimeWithNext(j) ==
    occs[j].startMs < occs[sel.next].endMs /\ occs[j].endMs > occs[sel.next].startMs

\* C27 as stated: when next is non-null and nextOverlapping is null, no
\* occurrence at any list position other than next overlaps next.
C27_NoOverlapAnywhere ==
    Analyzed =>
        ((sel.next # 0 /\ triple.nextOverlapping.isNull) =>
            \A j \in 1..Len(occs) : j # sel.next => ~SharesTimeWithNext(j))

\* C27, amended: when next is non-null and nextOverlapping is null, no
\* occurrence after next in the list overlaps next; occurrences before next
\* in the list are not examined.
C27_NoOverlapAfterNext ==
    Analyzed =>
        ((sel.next # 0 /\ triple.nextOverlapping.isNull) =>
            \A j \in (sel.next + 1)..Len(occs) : ~SharesTimeWithNext(j))

\* next is followed by an occurrence that starts exactly when next ends, and
\* nextOverlapping is null.
C27_Witness ==
    /\ Analyzed
    /\ sel.next # 0
    /\ sel.next < Len(occs)
    /\ occs[sel.next].startMs < occs[sel.next].endMs
    /\ occs[sel.next + 1].startMs = occs[sel.next].endMs
    /\ occs[sel.next + 1].endMs > occs[sel.next + 1].startMs
    /\ triple.nextOverlapping.isNull

-----------------------------------------------------------------------------
(* Claims about the metrics (SpecMetrics) *)

\* C19: minutesUntilNext is max(0, round((next.start - now) / 60000)) on the
\* absolute instant of next and is null exactly when next is null; the
\* serialized next.start parses back to the same instant, to the second,
\* whatever the requested zone.
C19_MinutesUntilNextOnInstant ==
    Analyzed =>
        /\ (metrics.minutesUntilNext = NoDate) <=> (sel.next = 0)
        /\ sel.next # 0 =>
              LET startMs == occs[sel.next].startMs
                  exact == (2 * (startMs - nowMs) + MinuteMs) \div (2 * MinuteMs)
              IN  /\ metrics.minutesUntilNext = IF exact > 0 THEN exact ELSE 0
                  /\ DateParse(triple.next.start) \div 1000 = startMs \div 1000

-----------------------------------------------------------------------------
(* Claims about the day window (SpecWindow) *)

Windowed == pc = "windowed"

\* The zone-local calendar date of an instant, as a day number.
LocalDate(ms, zone) == (ms + Offset(zone, ms)) \div DayMs

\* The zone's wall clock at the instant reads 00:00:00 of the date.
IsLocalMidnightOf(ms, zone, date) == ms + Offset(zone, ms) = date * DayMs

\* C20: for every now and valid zone, offset changes included, the window
\* starts at local midnight of now's local date and ends at local midnight of
\* the next date, so start <= now < end, and it is 23, 24 or 25 hours long.
C20_WindowIsLocalDay ==
    Windowed =>
        /\ IsLocalMidnightOf(windowStartMs, tz, LocalDate(nowMs, tz))
        /\ IsLocalMidnightOf(windowEndMs, tz, LocalDate(nowMs, tz) + 1)
        /\ windowStartMs <= nowMs
        /\ nowMs < windowEndMs
        /\ windowEndMs - windowStartMs \in {23 * HourMs, 24 * HourMs, 25 * HourMs}

-----------------------------------------------------------------------------
(* Claims about the text normalizer (SpecNormalize) *)

Normalized == pc = "normalized"

\* Lines b..e are a VTIMEZONE block that is not inside another one.
IsBlock(b, e) ==
    /\ b < e
    /\ icsText[b] = BeginLine
    /\ icsText[e] = EndLine
    /\ \A k \in (b + 1)..(e - 1) : icsText[k] # BeginLine /\ icsText[k] # EndLine
    /\ Cardinality({k \in 1..(b - 1) : icsText[k] = BeginLine})
         = Cardinality({k \in 1..(b - 1) : icsText[k] = EndLine})

\* The identifier is the one a VTIMEZONE block of the text declares (its
\* TZID property, the first should it carry several).
DeclaredByBlock(id) ==
    \E b \in 1..Len(icsText), e \in 1..Len(icsText) :
        /\ IsBlock(b, e)
        /\ \E t \in (b + 1)..(e - 1) :
              /\ icsText[t] = TzidLine(id)
              /\ \A k \in (b + 1)..(t - 1) : icsText[k].kind # "TZID:"

\* C21: a TZID reference whose identifier a VTIMEZONE block of the same text
\* declares is left unchanged, whatever the table or the pinned overrides map
\* it to and wherever the block stands in the text; the other lines, the
\* blocks' own TZID lines among them, are never rewritten.
C21_DeclaredZonesKept ==
    Normalized =>
        /\ Len(fixedIcs) = Len(icsText)
        /\ \A i \in 1..Len(icsText) :
              /\ (icsText[i].kind = "TZID=" /\ DeclaredByBlock(icsText[i].id)) =>
                    fixedIcs[i] = icsText[i]
              /\ icsText[i].kind # "TZID=" => fixedIcs[i] = icsText[i]

\* A reference to a pinned legacy identifier stands before the block that
\* declares it and is kept.
C21_Witness ==
    /\ Normalized
    /\ Len(icsText) = 4
    /\ icsText[1] = RefLine("FLE Standard Time")
    /\ IsBlock(2, 4)
    /\ icsText[3] = TzidLine("FLE Standard Time")
    /\ fixedIcs = icsText

-----------------------------------------------------------------------------
(* Claims about the cache and the request checks (SpecCache) *)

\* The step in which an invocation returns its response.
InvocationEnds == pc = "idle" /\ pc' = "responded"

\* The response of a request rejected before any window, fetch or parse.
RejectedEarly(statusCode) ==
    /\ response'.statusCode = statusCode
    /\ response'.body.isNull
    /\ response'.error # Null
    /\ windowStartMs' = 0
    /\ windowEndMs' = 0
    /\ allEvents' = <<>>
    /\ pending' = pending
    /\ cache' = cache

\* C22 as stated: a request whose effective tz is not a valid zone gets a 400
\* input error; no window is computed, nothing is fetched or parsed, and the
\* cache is left as it was, fresh body or not.
C22_InvalidZoneRejected ==
    [][(InvocationEnds /\ tz' = "Mars/Phobos") => RejectedEarly(400)]_vars

\* C22, amended: that holds for a request that carries an inline body or is
\* served where ICS_URL is set; a URL-based request where ICS_URL is missing
\* gets the 500 configuration error first, with the same frame.
C22_InvalidZoneRejectedWithSource ==
    [][(InvocationEnds /\ tz' = "Mars/Phobos") =>
          IF hasInlineIcs' \/ icsUrl # Null
          THEN RejectedEarly(400) /\ response'.error = "Invalid timezone"
          ELSE RejectedEarly(500)]_vars

\* The cache holds a body that a URL-based request at some now would be
\* served.
FreshCache ==
    /\ ~cache.body.isNull
    /\ \E n \in CacheNows : n >= cache.at /\ n - cache.at < CACHE_MS

\* A URL-based request with an invalid zone was rejected with 400 while the
\* cache held a fresh body.
C22_Witness ==
    /\ pc = "responded"
    /\ tz = "Mars/Phobos"
    /\ ~hasInlineIcs
    /\ response.statusCode = 400
    /\ FreshCache

\* C23: an inline request never gets a cached body (a 200 response is a MISS
\* computed from the request's own body, for its own tz and now) and never
\* changes the cache; the cache changes only to the result of a URL-based
\* computation, so a later URL-based request sees what the last one left.
C23_InlineBypassesCache ==
    [][/\ (InvocationEnds /\ hasInlineIcs') =>
            /\ cache' = cache
            /\ response'.xCache # "HIT"
            /\ response'.statusCode = 200 =>
                  /\ response'.xCache = "MISS"
                  /\ response'.body.window.tz = tz'
                  /\ response'.body.metrics.now = isoWithTimeZone(nowMs', tz')
                  /\ response'.body.triple =
                        computeNextTriple(
                            MergedOccs(allEvents', windowStartMs', windowEndMs', nowMs'),
                            nowMs', tz')
       /\ cache' # cache =>
            /\ InvocationEnds
            /\ ~hasInlineIcs'
            /\ response'.xCache = "MISS"
            /\ cache' = [at |-> nowMs', body |-> response'.body]]_vars

\* An inline request was answered from its own calendar while the cache held
\* a different body that is fresh at the request's now.
C23_Witness ==
    /\ pc = "responded"
    /\ hasInlineIcs
    /\ response.statusCode = 200
    /\ ~cache.body.isNull
    /\ nowMs >= cache.at
    /\ nowMs - cache.at < CACHE_MS
    /\ response.body # cache.body
    /\ ~response.body.triple.next.isNull

\* C24: a URL-based request is answered from the cache (HIT, the stored body)
\* only while the stored body's age is at least 0 and below CACHE_MS; a
\* URL-based request that recomputes (MISS) replaces the stored body.
C24_CacheLifetime ==
    [][InvocationEnds =>
          /\ response'.xCache = "HIT" =>
                /\ ~hasInlineIcs'
                /\ response'.body = cache.body
                /\ nowMs' - cache.at >= 0
                /\ nowMs' - cache.at < CACHE_MS
          /\ (~hasInlineIcs' /\ response'.xCache = "MISS") =>
                cache' = [at |-> nowMs', body |-> response'.body]]_vars

\* C25: an invocation that does not return 200 leaves the cache as it was
\* (the cache changes only in a step that returns 200), and its response is
\* one error object without a body.
C25_FailureKeepsCache ==
    [][/\ (InvocationEnds /\ response'.statusCode # 200) =>
            /\ cache' = cache
            /\ response'.body.isNull
            /\ response'.error # Null
            /\ response'.statusCode \in {400, 500}
       /\ cache' # cache => (InvocationEnds /\ response'.statusCode = 200)]_vars

\* A URL-based invocation failed at the fetch or the parse while the cache
\* held a body.
C25_Witness ==
    /\ pc = "responded"
    /\ ~hasInlineIcs
    /\ response.statusCode = 500
    /\ response.error \in {"fetch", "parse"}
    /\ ~cache.body.isNull

\* C28: a body served with x-cache: HIT was computed for the tz of the
\* request and for a now not later than the request's now.
C28_HitMatchesRequest ==
    (pc = "responded" /\ response.xCache = "HIT") =>
        /\ response.body.window.tz = tz
        /\ cache.at <= nowMs

\* C30: whatever the interleaving of URL-based invocations at the await of
\* the fetch, the cache holds a body with the now of the invocation that
\* computed it, and cache.at never decreases.
C30_CacheNeverGoesBack ==
    [][/\ ~cache'.body.isNull =>
            cache'.body.metrics.now = isoWithTimeZone(cache'.at, cache'.body.window.tz)
       /\ cache'.at >= cache.at]_vars

-----------------------------------------------------------------------------
(* Claims about the order of the components (SpecOrder) *)

\* The component lists that are a reordering of the one given.
Reorderings(events) ==
    {[i \in 1..Len(events) |-> events[f[i]]] :
        f \in {g \in [1..Len(events) -> 1..Len(events)] :
                  \A a, b \in 1..Len(events) : a # b => g[a] # g[b]}}

\* current, next, nextOverlapping and nextNonOverlapping of a component list
\* under the request being answered.
TimelineOf(events) ==
    LET list == MergedOccs(events, windowStartMs, windowEndMs, nowMs)
    IN  [current |-> DtoAt(list, CurrentIdx(list, nowMs), tz),
         triple |-> computeNextTriple(list, nowMs, tz)]

\* C29: the handler gives the same current, next, nextOverlapping and
\* nextNonOverlapping for every reordering of the parsed components.
C29_ComponentOrderIrrelevant ==
    (pc = "responded" /\ response.statusCode = 200) =>
        /\ TimelineOf(allEvents) =
              [current |-> response.body.metrics.current, triple |-> response.body.triple]
        /\ \A q \in Reorderings(allEvents) : TimelineOf(q) = TimelineOf(allEvents)

====
